---- MODULE Spec2Model ----
(***************************************************************************)
(* State-machine model of do_mpc/estimator.py: the estimator base class    *)
(* (set_initial_state / reset_history), state_feedback.make_step and the   *)
(* moving-horizon estimator mhe (parameter partition, vars accessor,       *)
(* set_objective, set_p_fun, setup, make_step).                            *)
(*                                                                         *)
(* One estimator object is modelled at a time.  SpecEst drives a           *)
(* state_feedback object, SpecMhe an mhe object after construction,        *)
(* SpecPart the construction of an mhe for every parameter list and every  *)
(* p_est_list together with the p_cat_fun combination function.            *)
(*                                                                         *)
(* Conventions: an attribute that may not exist yet (or a None return) is  *)
(* the empty sequence None, an existing value v is Some(v) == <<v>>.       *)
(* A symbolic expression is a record [scalar, syms]: whether its shape is  *)
(* (1,1) and the set of its free symbols (what casadi's symvar returns).   *)
(* A bound is <<"-inf", 0>> or <<"fin", k>>.                               *)
(***************************************************************************)
EXTENDS Integers, Sequences, FiniteSets, TLC

\* ------------------------------------------------------------- bounds
\* largest state dimension of the model
MaxNx == 2
\* longest vector handed to set_initial_state
MaxLen == 3
\* most records the DataLog holds
MaxHist == 2
\* most parameters the model declares
MaxParams == 3
\* longest p_est_list handed to the mhe constructor
MaxEst == 2
\* most constraints declared before setup
MaxCons == 2

VARIABLES
    nx,               \* model._x.size
    x0,               \* estimator._x0 : [struct, vals]
    data,             \* estimator.data : the history records
    p_keys,           \* model._p.keys()
    p_est_list,       \* constructor argument of mhe
    p_est,            \* mhe._p_est (entry names; the symbols are the model's)
    p_set,            \* mhe._p_set
    flags,            \* mhe.flags
    obj_fun,          \* mhe.obj_fun (None until compiled)
    arrival_cost_fun, \* mhe.arrival_cost_fun (None until compiled)
    nl_cons_list,     \* optimizer.nl_cons_list : <<[expr_name, lb]>>
    nl_cons_lb,       \* mhe._nl_cons_lb (None until setup builds it)
    nl_cons_ub,       \* mhe._nl_cons_ub (None until setup builds it)
    last,             \* the last call and how it ended: [op, out]
    msg,              \* flag names listed by the last error message
    ret,              \* what the last call returned
    pv                \* the numeric parameter assignment of the last p_cat_fun call

vars == <<nx, x0, data, p_keys, p_est_list, p_est, p_set, flags, obj_fun,
          arrival_cost_fun, nl_cons_list, nl_cons_lb, nl_cons_ub, last, msg, ret, pv>>

estVars == <<nx, x0, data>>
partVars == <<p_keys, p_est_list, p_est, p_set>>
objVars == <<flags, obj_fun, arrival_cost_fun>>
consVars == <<nl_cons_list, nl_cons_lb, nl_cons_ub>>
\* every attribute of the estimator object (the call bookkeeping excluded)
attrs == <<nx, x0, data, p_keys, p_est_list, p_est, p_set, flags, obj_fun,
           arrival_cost_fun, nl_cons_list, nl_cons_lb, nl_cons_ub>>

None == <<>>
Some(v) == <<v>>

Range(s) == {s[i] : i \in 1..Len(s)}
Vals == {0, 1}
SeqsUpTo(S, n) == UNION {[1..k -> S] : k \in 0..n}
Zeros(n) == [i \in 1..n |-> 0]
Call(op, out) == [op |-> op, out |-> out]

\* ------------------------------------------------------- construction
\* mhe.__init__: the entries of _p_est are the model's parameters named in p_est_list
PEstOf(P, S) == SelectSeq(P, LAMBDA k : k \in Range(S))
\* mhe.__init__: the entries of _p_set are the model's parameters not named in it
PSetOf(P, S) == SelectSeq(P, LAMBDA k : k \notin Range(S))
\* self.model._x(v): the numeric structure of the model's states holding v
model_x(v) == [struct |-> "x", vals |-> v]
\* mhe.__init__: the lifecycle flags of a new mhe
InitialFlags ==
    [setup |-> FALSE, set_tvp_fun |-> FALSE, set_objective |-> FALSE, set_rterm |-> TRUE]

\* The state after estimator.__init__ / mhe.__init__ for a model with n states and
\* parameters P, and constructor argument p_est_list = S.
Construct(n, P, S) ==
    /\ nx = n
    /\ x0 = model_x(Zeros(n))
    /\ data = <<>>
    /\ p_keys = P
    /\ p_est_list = S
    /\ p_est = PEstOf(P, S)
    /\ p_set = PSetOf(P, S)
    /\ flags = InitialFlags
    /\ obj_fun = None
    /\ arrival_cost_fun = None
    /\ nl_cons_list = <<>>
    /\ nl_cons_lb = None
    /\ nl_cons_ub = None
    /\ last = Call("__init__", "ok")
    /\ msg = {}
    /\ ret = None
    /\ pv = <<>>

\* ------------------------------------------------- estimator (base class)
\* Types of the x0 argument: numpy.ndarray, casadi.DM, structure3.DMStruct, a
\* Python list (no size attribute) and Series, an object with an integer size
\* attribute that is none of the accepted types.
X0Types == {"ndarray", "DM", "DMStruct", "list", "Series"}
\* the vectors tried: of every length up to MaxLen, all zero and alternating 1,0,1,..
Ramp(n) == [i \in 1..n |-> i % 2]
X0Vecs == UNION {{Zeros(k), Ramp(k)} : k \in 0..MaxLen}
X0Args ==
    {[type |-> t, struct |-> IF t = "DMStruct" THEN "x" ELSE "", vals |-> v] :
        t \in X0Types, v \in X0Vecs}
\* reset_history arguments: the two booleans and the (truthy) integer 1
ResetArgs ==
    {[type |-> "bool", val |-> TRUE], [type |-> "bool", val |-> FALSE],
     [type |-> "int", val |-> TRUE]}
AcceptedX0Types == {"ndarray", "DM", "DMStruct"}

\* self.data.init_storage(): the DataLog reinitialised to empty
init_storage == <<>>

\* How set_initial_state(x, r) ends.  x.size is missing on a list (AttributeError)
\* and is a bound method on a casadi.DM, which never equals the integer
\* model._x.size, so the first assertion fails for every DM.
SetInitialStateOutcome(x, r) ==
    IF x.type = "list" THEN "AttributeError"
    ELSE IF x.type = "DM" \/ Len(x.vals) # nx THEN "AssertionError:size"
    ELSE IF r.type # "bool" THEN "AssertionError:reset_history"
    ELSE IF x.type \in AcceptedX0Types THEN "ok"
    ELSE "Exception:type"

\* A faulty variant, used to test the properties: the history is reset before the arguments are validated
set_initial_state_reset_first(x, r) ==
    LET out == SetInitialStateOutcome(x, r) IN
    /\ x0' = IF out # "ok" THEN x0
             ELSE IF x.type \in {"ndarray", "DM"} THEN model_x(x.vals)
             ELSE [struct |-> x.struct, vals |-> x.vals]
    /\ data' = IF r.val THEN init_storage ELSE data
    /\ last' = Call("set_initial_state", out)
    /\ msg' = {}
    /\ ret' = None
    /\ UNCHANGED <<nx, partVars, objVars, consVars, pv>>

\* A faulty variant, used to test the properties: the history is reset whatever reset_history says
set_initial_state_always_reset(x, r) ==
    LET out == SetInitialStateOutcome(x, r) IN
    /\ x0' = IF out # "ok" THEN x0
             ELSE IF x.type \in {"ndarray", "DM"} THEN model_x(x.vals)
             ELSE [struct |-> x.struct, vals |-> x.vals]
    /\ data' = IF out = "ok" THEN init_storage ELSE data
    /\ last' = Call("set_initial_state", out)
    /\ msg' = {}
    /\ ret' = None
    /\ UNCHANGED <<nx, partVars, objVars, consVars, pv>>

\* estimator.set_initial_state(x0, reset_history)
set_initial_state(x, r) ==
    LET out == SetInitialStateOutcome(x, r) IN
    /\ x0' = IF out # "ok" THEN x0
             ELSE IF x.type \in {"ndarray", "DM"} THEN model_x(x.vals)
             ELSE [struct |-> x.struct, vals |-> x.vals]
    /\ data' = IF out = "ok" /\ r.val THEN init_storage ELSE data
    /\ last' = Call("set_initial_state", out)
    /\ msg' = {}
    /\ ret' = None
    /\ UNCHANGED <<nx, partVars, objVars, consVars, pv>>

\* estimator.reset_history()
reset_history ==
    /\ data' = init_storage
    /\ last' = Call("reset_history", "ok")
    /\ msg' = {}
    /\ ret' = None
    /\ UNCHANGED <<nx, x0, partVars, objVars, consVars, pv>>

\* state_feedback.make_step(y0): returns the measurement, touches nothing
state_feedback_make_step(y0) ==
    /\ last' = Call("make_step", "ok")
    /\ msg' = {}
    /\ ret' = Some(y0)
    /\ UNCHANGED <<attrs, pv>>

\* The control loop records a step in the estimator's DataLog (data.update).
data_update ==
    /\ Len(data) < MaxHist
    /\ data' = Append(data, x0.vals)
    /\ last' = Call("data.update", "ok")
    /\ msg' = {}
    /\ ret' = None
    /\ UNCHANGED <<nx, x0, partVars, objVars, consVars, pv>>

InitEst == \E n \in 1..MaxNx : Construct(n, <<"p1", "p2">>, <<"p1">>)
NextEst ==
    \/ \E x \in X0Args, r \in ResetArgs : set_initial_state(x, r)
    \/ reset_history
    \/ \E y0 \in [1..nx -> Vals] : state_feedback_make_step(y0)
    \/ data_update
SpecEst == InitEst /\ [][NextEst]_vars

\* C4: a set_initial_state call whose x0 has the wrong length, or a type that is
\* neither a numeric vector nor a structured container, fails and leaves the
\* stored state and the history exactly as they were, for every reset_history.
C4_RejectedInitialStateChangesNothing ==
    [][\A x \in X0Args, r \in ResetArgs :
          (last'.op = "set_initial_state" /\ set_initial_state(x, r)
             /\ (Len(x.vals) # nx \/ x.type \notin AcceptedX0Types))
          => (last'.out # "ok" /\ UNCHANGED <<x0, data>>)]_vars
\* a wrong-size call was rejected while a non-initial state and a history were stored
C4_Witness ==
    /\ last = Call("set_initial_state", "AssertionError:size")
    /\ x0.vals # Zeros(nx)
    /\ Len(data) > 0

\* C5: a successful set_initial_state(x0, reset_history) stores x0; the history is
\* empty afterwards when reset_history is true and keeps its length otherwise.
C5_AcceptedInitialStateStoredHistoryPerFlag ==
    [][\A x \in X0Args, r \in ResetArgs :
          (last' = Call("set_initial_state", "ok") /\ set_initial_state(x, r))
          => /\ x0'.vals = x.vals
             /\ r.val => Len(data') = 0
             /\ ~r.val => Len(data') = Len(data)]_vars
\* an accepted call without reset: a new state is stored and the history is kept
C5_Witness ==
    /\ last = Call("set_initial_state", "ok")
    /\ x0.vals # Zeros(nx)
    /\ Len(data) = MaxHist

\* ------------------------------------------------------------------ mhe
Expr(sc, sy) == [scalar |-> sc, syms |-> sy]
\* The expressions handed to set_objective: a constant, expressions of the states,
\* of the states and parameter p1, of the inputs, of parameter p2, of the
\* measurements, of an auxiliary symbol that is no input of obj_fun, and a
\* vector-valued expression of the states.
Exprs ==
    {Expr(TRUE, {}), Expr(TRUE, {"x"}), Expr(TRUE, {"x", "p1"}), Expr(TRUE, {"u"}),
     Expr(TRUE, {"p2"}), Expr(TRUE, {"y"}), Expr(TRUE, {"aux"}), Expr(FALSE, {"x"})}

\* The symbols of [_x, _u, _z, _tvp, _p, _y_meas], the inputs of obj_fun.
ObjInputs == {"x", "u", "z", "tvp", "y"} \cup Range(p_keys)
\* symvar(vertcat(x_0, x_prev, p_0, p_prev)).  x_prev and p_prev are shallow copies
\* of model._x and _p_est, so they hold the same symbols as x_0 and p_0.
ArrivalSyms == {"x"} \cup Range(p_est)

\* How set_objective(obj, arrival_cost) ends: the three assertions on entry, the
\* construction of obj_fun (casadi refuses an SX Function with free symbols),
\* the assertion on the arrival cost's symbols.
SetObjectiveOutcome(obj, arrival_cost) ==
    IF ~obj.scalar THEN "AssertionError:obj_shape"
    ELSE IF ~arrival_cost.scalar THEN "AssertionError:arrival_cost_shape"
    ELSE IF flags.setup THEN "AssertionError:after_setup"
    ELSE IF ~(obj.syms \subseteq ObjInputs) THEN "RuntimeError:free_symbols"
    ELSE IF ~(arrival_cost.syms \subseteq ArrivalSyms) THEN "AssertionError:arrival_cost_symbols"
    ELSE "ok"

\* A faulty variant, used to test the properties: the assertion that setup has not run is missing
set_objective_no_setup_assert(obj, arrival_cost) ==
    LET out == IF ~obj.scalar THEN "AssertionError:obj_shape"
               ELSE IF ~arrival_cost.scalar THEN "AssertionError:arrival_cost_shape"
               ELSE IF ~(obj.syms \subseteq ObjInputs) THEN "RuntimeError:free_symbols"
               ELSE IF ~(arrival_cost.syms \subseteq ArrivalSyms)
                    THEN "AssertionError:arrival_cost_symbols"
               ELSE "ok"
    IN
    /\ obj_fun' = IF out \in {"AssertionError:arrival_cost_symbols", "ok"}
                  THEN Some(obj) ELSE obj_fun
    /\ arrival_cost_fun' = IF out = "ok" THEN Some(arrival_cost) ELSE arrival_cost_fun
    /\ flags' = IF out = "ok" THEN [flags EXCEPT !["set_objective"] = TRUE] ELSE flags
    /\ last' = Call("set_objective", out)
    /\ msg' = {}
    /\ ret' = None
    /\ UNCHANGED <<estVars, partVars, consVars, pv>>

\* A faulty variant, used to test the properties: the arrival cost is checked against all parameters of the model, not
\* only the estimated ones
set_objective_all_params(obj, arrival_cost) ==
    LET out == IF ~obj.scalar THEN "AssertionError:obj_shape"
               ELSE IF ~arrival_cost.scalar THEN "AssertionError:arrival_cost_shape"
               ELSE IF flags.setup THEN "AssertionError:after_setup"
               ELSE IF ~(obj.syms \subseteq ObjInputs) THEN "RuntimeError:free_symbols"
               ELSE IF ~(arrival_cost.syms \subseteq ({"x"} \cup Range(p_keys)))
                    THEN "AssertionError:arrival_cost_symbols"
               ELSE "ok"
    IN
    /\ obj_fun' = IF out \in {"AssertionError:arrival_cost_symbols", "ok"}
                  THEN Some(obj) ELSE obj_fun
    /\ arrival_cost_fun' = IF out = "ok" THEN Some(arrival_cost) ELSE arrival_cost_fun
    /\ flags' = IF out = "ok" THEN [flags EXCEPT !["set_objective"] = TRUE] ELSE flags
    /\ last' = Call("set_objective", out)
    /\ msg' = {}
    /\ ret' = None
    /\ UNCHANGED <<estVars, partVars, consVars, pv>>

\* mhe.set_objective(obj, arrival_cost).  obj_fun is assigned before the arrival
\* cost's symbols are checked, so a call that fails on that check has already
\* replaced obj_fun.
set_objective(obj, arrival_cost) ==
    LET out == SetObjectiveOutcome(obj, arrival_cost) IN
    /\ obj_fun' = IF out \in {"AssertionError:arrival_cost_symbols", "ok"}
                  THEN Some(obj) ELSE obj_fun
    /\ arrival_cost_fun' = IF out = "ok" THEN Some(arrival_cost) ELSE arrival_cost_fun
    /\ flags' = IF out = "ok" THEN [flags EXCEPT !["set_objective"] = TRUE] ELSE flags
    /\ last' = Call("set_objective", out)
    /\ msg' = {}
    /\ ret' = None
    /\ UNCHANGED <<estVars, partVars, consVars, pv>>

\* optimizer.set_tvp_fun: registers the time-varying-parameter function
set_tvp_fun ==
    /\ flags' = [flags EXCEPT !["set_tvp_fun"] = TRUE]
    /\ last' = Call("set_tvp_fun", "ok")
    /\ msg' = {}
    /\ ret' = None
    /\ UNCHANGED <<estVars, partVars, obj_fun, arrival_cost_fun, consVars, pv>>

\* mhe.set_p_fun(p_fun): adds the key set_p_fun to the flags
set_p_fun ==
    /\ flags' = [k \in DOMAIN flags \cup {"set_p_fun"} |->
                    IF k = "set_p_fun" THEN TRUE ELSE flags[k]]
    /\ last' = Call("set_p_fun", "ok")
    /\ msg' = {}
    /\ ret' = None
    /\ UNCHANGED <<estVars, partVars, obj_fun, arrival_cost_fun, consVars, pv>>

\* mhe.get_p_template(): a zero-valued structure shaped like _p_set
get_p_template ==
    /\ last' = Call("get_p_template", "ok")
    /\ msg' = {}
    /\ ret' = Some(Zeros(Len(p_set)))
    /\ UNCHANGED <<attrs, pv>>

\* ------------------------------------------------------------ mhe.vars
\* Indices tried on vars: a name, a tuple (name, sub-index), an integer.
VarsIndices ==
    {[kind |-> k, name |-> n] : k \in {"str", "tuple"}, n \in {"x_0", "flags", "nope"}}
    \cup {[kind |-> "int", name |-> ""]}
\* Values tried in a write through vars.
VarsValues == {InitialFlags, [InitialFlags EXCEPT !["setup"] = TRUE]}
\* self.__dict__.keys(), as far as the indices tried go
HasAttr(n) == n \in {"x_0", "flags"}

\* the getter of vars
vars_get(ind) ==
    /\ last' = Call("vars.get",
                    IF ind.kind \notin {"str", "tuple"} THEN "Exception:index"
                    ELSE IF ~HasAttr(ind.name) THEN "AssertionError:not_a_variable"
                    ELSE IF ind.kind = "tuple" /\ ind.name = "flags" THEN "KeyError"
                    ELSE "ok")
    /\ msg' = {}
    /\ ret' = None
    /\ UNCHANGED <<attrs, pv>>

\* A faulty variant, used to test the properties: the setter stores the value in the named attribute
vars_set_stores(ind, val) ==
    /\ flags' = IF ind.name = "flags" THEN val ELSE flags
    /\ last' = Call("vars.set", IF ind.name = "flags" THEN "ok" ELSE "Exception:setter")
    /\ msg' = {}
    /\ ret' = None
    /\ UNCHANGED <<estVars, partVars, obj_fun, arrival_cost_fun, consVars, pv>>

\* the setter of vars: raises whatever the index and the value
vars_set(ind, val) ==
    /\ last' = Call("vars.set", "Exception:setter")
    /\ msg' = {}
    /\ ret' = None
    /\ UNCHANGED <<attrs, pv>>

\* ----------------------------------------------------------- constraints
NegInf == <<"-inf", 0>>
Fin(k) == <<"fin", k>>
ConsNames == {"c1", "c2", "c3"}
LbValues == {NegInf, Fin(-2), Fin(3)}

\* optimizer.set_nl_cons: declares a constraint; refused once setup has run
set_nl_cons(name, lb) ==
    /\ \/ /\ flags.setup
          /\ last' = Call("set_nl_cons", "ConfigurationError")
          /\ UNCHANGED nl_cons_list
       \/ /\ ~flags.setup
          /\ Len(nl_cons_list) < MaxCons
          /\ \A i \in 1..Len(nl_cons_list) : nl_cons_list[i].expr_name # name
          /\ nl_cons_list' = Append(nl_cons_list, [expr_name |-> name, lb |-> lb])
          /\ last' = Call("set_nl_cons", "ok")
    /\ msg' = {}
    /\ ret' = None
    /\ UNCHANGED <<estVars, partVars, objVars, nl_cons_lb, nl_cons_ub, pv>>

\* self._nl_cons(v): one entry per declared constraint, in order, all set to v
NlConsStruct(list, v) == [i \in 1..Len(list) |-> [name |-> list[i].expr_name, val |-> v]]
\* struct[name] = v
SetEntry(struct, name, v) ==
    [i \in 1..Len(struct) |-> IF struct[i].name = name THEN [struct[i] EXCEPT !.val = v]
                              ELSE struct[i]]
\* the loop of setup over nl_cons_list, from its i-th item on
RECURSIVE SetLowerBounds(_, _, _)
SetLowerBounds(struct, list, i) ==
    IF i > Len(list) THEN struct
    ELSE SetLowerBounds(SetEntry(struct, list[i].expr_name, list[i].lb), list, i + 1)

\* the lifecycle flags setup() requires
RequiredFlags == {"set_objective", "set_tvp_fun", "set_rterm"}
\* optimizer.check_validity: the required flags that are not set (none: it passes)
check_validity(fl) == {f \in RequiredFlags : ~fl[f]}
\* setup_mhe: builds the horizon problem and marks the estimator set up
setup_mhe(fl) == [fl EXCEPT !["setup"] = TRUE]

\* A faulty variant, used to test the properties: check_validity is not called
setup_unchecked ==
    /\ nl_cons_ub' = Some(NlConsStruct(nl_cons_list, Fin(0)))
    /\ nl_cons_lb' = Some(SetLowerBounds(NlConsStruct(nl_cons_list, NegInf), nl_cons_list, 1))
    /\ flags' = setup_mhe(flags)
    /\ last' = Call("setup", "ok")
    /\ msg' = {}
    /\ ret' = None
    /\ UNCHANGED <<estVars, partVars, obj_fun, arrival_cost_fun, nl_cons_list, pv>>

\* A faulty variant, used to test the properties: the declared bounds are written to the upper bounds
setup_bounds_swapped ==
    LET missing == check_validity(flags) IN
    /\ nl_cons_lb' = Some(NlConsStruct(nl_cons_list, NegInf))
    /\ nl_cons_ub' = Some(SetLowerBounds(NlConsStruct(nl_cons_list, Fin(0)), nl_cons_list, 1))
    /\ flags' = IF missing = {} THEN setup_mhe(flags) ELSE flags
    /\ last' = Call("setup", IF missing = {} THEN "ok" ELSE "ConfigurationError")
    /\ msg' = missing
    /\ ret' = None
    /\ UNCHANGED <<estVars, partVars, obj_fun, arrival_cost_fun, nl_cons_list, pv>>

\* mhe.setup(): builds the bounds of the declared constraints, then validates the
\* flags, then builds the problem.  The bounds are built before the validation.
setup ==
    LET missing == check_validity(flags) IN
    /\ nl_cons_ub' = Some(NlConsStruct(nl_cons_list, Fin(0)))
    /\ nl_cons_lb' = Some(SetLowerBounds(NlConsStruct(nl_cons_list, NegInf), nl_cons_list, 1))
    /\ flags' = IF missing = {} THEN setup_mhe(flags) ELSE flags
    /\ last' = Call("setup", IF missing = {} THEN "ok" ELSE "ConfigurationError")
    /\ msg' = missing
    /\ ret' = None
    /\ UNCHANGED <<estVars, partVars, obj_fun, arrival_cost_fun, nl_cons_list, pv>>

\* mhe.make_step(y0): the body is the expression None; nothing is solved, stored,
\* recorded or returned
make_step(y0) ==
    /\ last' = Call("make_step", "ok")
    /\ msg' = {}
    /\ ret' = None
    /\ UNCHANGED <<attrs, pv>>

InitMhe == Construct(1, <<"p1", "p2">>, <<"p1">>)
NextMhe ==
    \/ \E obj \in Exprs, arrival_cost \in Exprs : set_objective(obj, arrival_cost)
    \/ set_tvp_fun
    \/ set_p_fun
    \/ get_p_template
    \/ \E ind \in VarsIndices : vars_get(ind)
    \/ \E ind \in VarsIndices, val \in VarsValues : vars_set(ind, val)
    \/ set_nl_cons("c1", Fin(-2))
    \/ setup
    \/ \E y0 \in [1..nx -> Vals] : make_step(y0)
SpecMhe == InitMhe /\ [][NextMhe]_vars

\* The objective alone: every expression pair, for an mhe with and without an
\* estimated parameter.
InitObj == \E S \in {<<>>, <<"p1">>} : Construct(1, <<"p1", "p2">>, S)
NextObj ==
    \/ \E obj \in Exprs, arrival_cost \in Exprs : set_objective(obj, arrival_cost)
    \/ set_tvp_fun
    \/ setup
SpecObj == InitObj /\ [][NextObj]_vars

\* The constraints alone: every list of declared constraints.
ValidObjective == Expr(TRUE, {"x"})
InitCons == Construct(1, <<"p1", "p2">>, <<"p1">>)
NextCons ==
    \/ \E name \in ConsNames, lb \in LbValues : set_nl_cons(name, lb)
    \/ set_objective(ValidObjective, ValidObjective)
    \/ set_tvp_fun
    \/ setup
SpecCons == InitCons /\ [][NextCons]_vars

\* C1: after a setup() that succeeded the flag setup is true and stays true, and
\* every later set_objective call fails and leaves the flags and both compiled
\* evaluators unchanged.
C1_SetupFreezesObjective ==
    [][/\ last' = Call("setup", "ok") => flags'.setup
       /\ flags.setup => flags'.setup
       /\ (flags.setup /\ last'.op = "set_objective")
              => (last'.out # "ok" /\ UNCHANGED <<flags, obj_fun, arrival_cost_fun>>)]_vars
\* a set_objective call was refused after setup, with an objective in place
C1_Witness ==
    /\ flags.setup
    /\ last = Call("set_objective", "AssertionError:after_setup")
    /\ obj_fun # None
    /\ arrival_cost_fun # None

\* C2: setup() called while a required flag is false fails with an error that
\* names every false required flag, and the flag setup stays false.
C2_SetupNamesEveryMissingFlag ==
    [][(last'.op = "setup" /\ \E f \in RequiredFlags : ~flags[f])
          => /\ last'.out = "ConfigurationError"
             /\ msg' = {f \in {"set_objective", "set_tvp_fun", "set_rterm"} : ~flags[f]}
             /\ ~flags'.setup]_vars
\* setup() failed naming two missing flags at once
C2_Witness ==
    /\ last = Call("setup", "ConfigurationError")
    /\ msg = {"set_objective", "set_tvp_fun"}
    /\ ~flags.setup

\* C3: after setup, each make_step(y0) that returns stores the new estimate,
\* returns it and appends exactly one record to the DataLog.
C3_MakeStepRecordsAndReturnsEstimate ==
    [][(flags.setup /\ last' = Call("make_step", "ok"))
          => (Len(data') = Len(data) + 1 /\ ret' = Some(x0'))]_vars

\* C6: every write through vars fails and changes no attribute, whatever the
\* index, the value and the lifecycle state; a read changes no attribute.
C6_VarsIsReadOnly ==
    [][/\ last'.op = "vars.set" => (last'.out # "ok" /\ UNCHANGED attrs)
       /\ last'.op = "vars.get" => UNCHANGED attrs]_vars
\* a write through vars was refused after setup
C6_Witness ==
    /\ last = Call("vars.set", "Exception:setter")
    /\ flags.setup

C9_BoundsAreDeclaredLowerAndZero ==
    last.op = "setup" =>
        /\ nl_cons_lb # None /\ nl_cons_ub # None
        /\ Len(nl_cons_lb[1]) = Len(nl_cons_list)
        /\ Len(nl_cons_ub[1]) = Len(nl_cons_list)
        /\ \A i \in 1..Len(nl_cons_list) :
              /\ nl_cons_lb[1][i] = [name |-> nl_cons_list[i].expr_name, val |-> nl_cons_list[i].lb]
              /\ nl_cons_ub[1][i] = [name |-> nl_cons_list[i].expr_name, val |-> <<"fin", 0>>]
\* setup built the bounds of two constraints, one with a finite lower bound and
\* one with none
C9_Witness ==
    /\ last.op = "setup"
    /\ Len(nl_cons_list) = 2
    /\ nl_cons_list[1].lb = <<"fin", 3>>
    /\ nl_cons_list[2].lb = <<"-inf", 0>>

\* C10: a set_objective call that fails leaves the flag set_objective and both
\* compiled evaluators as they were.
C10_RejectedObjectiveChangesNothing ==
    [][(last'.op = "set_objective" /\ last'.out # "ok")
          => UNCHANGED <<flags, obj_fun, arrival_cost_fun>>]_vars

\* ---------------------------------------------------- parameter partition
ParamNames == {"p1", "p2", "p3", "p4"}
\* the parameter lists a model may declare: distinct names, in any order
ParamLists ==
    {P \in SeqsUpTo(ParamNames, MaxParams) : \A i, j \in 1..Len(P) : P[i] = P[j] => i = j}
\* the p_est_list arguments tried: any names, repeated or unknown to the model
EstLists == SeqsUpTo(ParamNames \cup {"q"}, MaxEst)
IndexIn(P, name) == CHOOSE k \in 1..Len(P) : P[k] = name

\* A faulty variant, used to test the properties: the estimated and the set values are concatenated
p_cat_fun_concatenates(est_vals, set_vals) == est_vals \o set_vals

\* mhe._p_cat_fun = Function('p_cat_fun', [_p_est, _p_set], [_p]): the output is
\* the model's parameter vector; each of its symbols takes the value of the input
\* entry that holds that symbol.
p_cat_fun(est_vals, set_vals) ==
    [i \in 1..Len(p_keys) |->
        IF p_keys[i] \in Range(p_est) THEN est_vals[IndexIn(p_est, p_keys[i])]
        ELSE set_vals[IndexIn(p_set, p_keys[i])]]

\* A caller fills the two structures by name from the assignment a and evaluates
\* p_cat_fun on them.
p_cat_fun_call(a) ==
    /\ ret' = Some(p_cat_fun([j \in 1..Len(p_est) |-> a[p_est[j]]],
                             [j \in 1..Len(p_set) |-> a[p_set[j]]]))
    /\ pv' = a
    /\ last' = Call("p_cat_fun", "ok")
    /\ msg' = {}
    /\ UNCHANGED attrs

InitPart == \E P \in ParamLists, S \in EstLists : Construct(1, P, S)
NextPart ==
    \/ \E a \in [Range(p_keys) -> Vals] : p_cat_fun_call(a)
    \/ get_p_template
SpecPart == InitPart /\ [][NextPart]_vars

\* s lists some of the entries of P, each once, in the order of P
InOrderOf(s, P) ==
    /\ Range(s) \subseteq Range(P)
    /\ \A i, j \in 1..Len(s) : i < j => IndexIn(P, s[i]) < IndexIn(P, s[j])

\* C7: for every parameter list P and every p_est_list S, p_est and p_set together
\* hold every parameter, share none, each lists its parameters in the model's
\* order, p_cat_fun rebuilds the full parameter vector in the model's order for
\* every numeric assignment, and the empty S gives p_set = P.
C7_PartitionCompleteOrderedAndRecombined ==
    /\ Range(p_est) \cup Range(p_set) = Range(p_keys)
    /\ Range(p_est) \cap Range(p_set) = {}
    /\ InOrderOf(p_est, p_keys)
    /\ InOrderOf(p_set, p_keys)
    /\ p_est_list = <<>> => p_set = p_keys
    /\ last.op = "p_cat_fun" => ret = Some([i \in 1..Len(p_keys) |-> pv[p_keys[i]]])
\* p_cat_fun was evaluated for a partition whose estimated parameter is not the
\* model's first, on an assignment that tells the parameters apart
C7_Witness ==
    /\ last.op = "p_cat_fun"
    /\ Len(p_keys) = 3
    /\ Len(p_est) = 1
    /\ p_keys[1] \in Range(p_set)
    /\ p_keys[2] \in Range(p_est)
    /\ ret = Some(<<0, 1, 0>>)
====
